---------------------------- MODULE Spec2Model ----------------------------
(***************************************************************************)
(* Payment-to-identity reconciliation of the task-management application.  *)
(*                                                                         *)
(* The model covers the request handlers of the user/payment controller    *)
(* (updateAfterPayment, updateUserAfterPayment, handleStripeWebhook,        *)
(* updateUserStatus), the payment provider they call and the user table    *)
(* they share.  Every handler is an async function: it runs atomically up  *)
(* to each await, so two requests interleave exactly at the provider call  *)
(* and at each database call.  A handler is therefore one action per       *)
(* segment between awaits.                                                 *)
(*                                                                         *)
(* The model also covers the success page of the web client, whose form    *)
(* handler handleFormSubmit is the sender of the update-after-payment      *)
(* request: the page's React state and one run of the handler, again one   *)
(* action per segment between awaits.                                      *)
(***************************************************************************)
EXTENDS Naturals, Sequences, FiniteSets, TLC

VARIABLES
    users,      \* the user table: a set of rows
    req,        \* the requests being served, one per handler slot
    arrived,    \* the number of requests received so far
    page,       \* the success page: where the browser is and the React state
    submit      \* the run of handleFormSubmit: its position and its locals

vars == <<users, req, arrived, page, submit>>

-----------------------------------------------------------------------------
(* Bounds *)

\* Number of requests that can be in flight at the same time.
MaxConcurrent == 2

\* Number of requests the server receives in a run.
MaxRequests == 3

Slots == 1..MaxConcurrent

-----------------------------------------------------------------------------
(* JavaScript values *)

UNDEF == "undefined"
NULL  == "null"

\* !v for the values the handlers test: undefined, null and '' are falsy.
Falsy(v) == v \in {UNDEF, NULL, ""}

ACTIVE   == "active"
INACTIVE == "inactive"

-----------------------------------------------------------------------------
(* The payment provider *)

\* Checkout sessions the provider holds, by token.  A token outside the
\* domain is a session that does not exist.
StripeSessions ==
    [ sess_1 |-> [payment_status |-> "paid",   client_reference_id |-> "u42",
                  customer_email |-> "ada@example.com"],
      sess_2 |-> [payment_status |-> "unpaid", client_reference_id |-> "u42",
                  customer_email |-> "ada@example.com"],
      sess_3 |-> [payment_status |-> "paid",   client_reference_id |-> NULL,
                  customer_email |-> "ada@example.com"],
      sess_4 |-> [payment_status |-> "paid",   client_reference_id |-> NULL,
                  customer_email |-> NULL] ]

SessionTokens == DOMAIN StripeSessions

\* A token no session has.
UnknownToken == "sess_x"

NoSession == [payment_status |-> NULL, client_reference_id |-> NULL,
              customer_email |-> NULL]

\* Outcomes of stripe.checkout.sessions.retrieve: the session, or a thrown
\* error because the session does not exist ("missing") or because the call
\* itself failed ("unavailable").
RetrieveOutcomes(token) ==
    IF token \in SessionTokens THEN {"ok", "unavailable"}
                               ELSE {"missing", "unavailable"}

\* verifyStripeSession: the session, or null for every thrown error.
verifyStripeSession(token, outcome) ==
    IF outcome = "ok" THEN StripeSessions[token] ELSE NoSession

\* The session is null exactly when retrieval threw.
SessionIsNull(outcome) == outcome # "ok"

-----------------------------------------------------------------------------
(* The user table (Prisma) *)

\* Rows hold cognitoId (unique, optional), email (unique), username,
\* firstName, lastName, profilePictureUrl and subscriptionStatus.
NoUser == [cognitoId |-> NULL, email |-> NULL, username |-> NULL,
           firstName |-> NULL, lastName |-> NULL,
           profilePictureUrl |-> NULL, subscriptionStatus |-> NULL]

\* A lookup that compares the cognitoId with the wrong column.
FindByCognitoIdWrongColumn(table, cognitoId) ==
    IF \E u \in table : u.email = cognitoId
    THEN CHOOSE u \in table : u.email = cognitoId
    ELSE NoUser

\* prisma.user.findUnique({ where: { cognitoId } })
FindByCognitoId(table, cognitoId) ==
    IF \E u \in table : u.cognitoId = cognitoId
    THEN CHOOSE u \in table : u.cognitoId = cognitoId
    ELSE NoUser

\* prisma.user.findUnique({ where: { email } })
FindByEmail(table, email) ==
    IF \E u \in table : u.email = email
    THEN CHOOSE u \in table : u.email = email
    ELSE NoUser

\* A write that stores null for a field of `data` that is undefined.
AssignNullForUndefined(old, new) == IF new = UNDEF THEN NULL ELSE new

\* A field of `data` that is undefined is left out of the write.
Assign(old, new) == IF new = UNDEF THEN old ELSE new

\* The row `u` after an update with `data`.
ApplyData(u, data) ==
    [ cognitoId          |-> Assign(u.cognitoId, data.cognitoId),
      email              |-> Assign(u.email, data.email),
      username           |-> Assign(u.username, data.username),
      firstName          |-> Assign(u.firstName, data.firstName),
      lastName           |-> Assign(u.lastName, data.lastName),
      profilePictureUrl  |-> Assign(u.profilePictureUrl, data.profilePictureUrl),
      subscriptionStatus |-> Assign(u.subscriptionStatus, data.subscriptionStatus) ]

\* A data object with no field set.
NoData == [cognitoId |-> UNDEF, email |-> UNDEF, username |-> UNDEF,
           firstName |-> UNDEF, lastName |-> UNDEF,
           profilePictureUrl |-> UNDEF, subscriptionStatus |-> UNDEF]

\* The unique columns: a new row may not repeat a cognitoId or an email.
UniqueViolation(table, row) ==
    \E u \in table :
        \/ (row.cognitoId # NULL /\ u.cognitoId = row.cognitoId)
        \/ (row.email # NULL /\ u.email = row.email)

\* Result of a table operation: the table afterwards, the row returned and
\* the error thrown ("none" when it succeeded).
DbResult(table, row, err) == [table |-> table, row |-> row, err |-> err]

\* prisma.user.create({ data }): throws on a unique-constraint violation.
PrismaCreate(table, data) ==
    LET row == ApplyData(NoUser, data)
    IN  IF UniqueViolation(table, row)
        THEN DbResult(table, NoUser, "UniqueConstraint")
        ELSE DbResult(table \cup {row}, row, "none")

\* prisma.user.update({ where, data }) on the row `found` selects (NoUser
\* when the where clause selects nothing): throws when no row matches.
PrismaUpdate(table, found, data) ==
    IF found = NoUser
    THEN DbResult(table, NoUser, "RecordNotFound")
    ELSE LET row == ApplyData(found, data)
         IN  DbResult((table \ {found}) \cup {row}, row, "none")

\* Any table call can also fail as a whole (connection lost, timeout).
DbOutcomes == {"ok", "DbUnavailable"}

-----------------------------------------------------------------------------
(* Requests *)

\* req.body of the JSON endpoints; a field the client left out is undefined.
NoBody == [sessionId |-> UNDEF, firstName |-> UNDEF, lastName |-> UNDEF,
           username |-> UNDEF, profilePictureUrl |-> UNDEF,
           cognitoId |-> UNDEF, status |-> UNDEF]

\* A webhook delivery: whether its signature matches the raw body, and the
\* event the raw body encodes.
NoEvent == [signed |-> FALSE, type |-> UNDEF, customer_email |-> UNDEF]

\* A request in a slot: its handler, where the handler is (pc), what it
\* received, what it has read so far, and its response (status 0: none yet).
Idle == [handler |-> "none", pc |-> "idle", body |-> NoBody, event |-> NoEvent,
         retrieve |-> "none", session |-> NoSession, user |-> NoUser,
         status |-> 0, success |-> UNDEF, err |-> "none", logs |-> <<>>]

NewRequest(handler, body, event) ==
    [Idle EXCEPT !.handler = handler, !.pc = "start", !.body = body,
                 !.event = event]

\* res.status(code).json({ success, ... }): the handler is finished.  `success`
\* is the body's success field ("true", "false", or undefined when the body
\* has none).
Respond(r, code, success) ==
    [r EXCEPT !.pc = "done", !.status = code, !.success = success]

\* console.error / console.log
Log(r, line) == [r EXCEPT !.logs = Append(@, line)]

\* A handler's catch block: log the error, then respond with `code`.
Catch(r, err, line, code, success) ==
    Respond(Log([r EXCEPT !.err = err], line), code, success)

\* The slot a new request takes: the first one not serving a request.
Free(s) == req[s].pc \in {"idle", "done"}

FirstFree(s) == Free(s) /\ \A t \in Slots : t < s => ~Free(t)

\* A request is received into slot s.
Receive(s) ==
    /\ arrived < MaxRequests
    /\ FirstFree(s)
    /\ arrived' = arrived + 1

-----------------------------------------------------------------------------
(* Inputs *)

TokensSent == SessionTokens \cup {UnknownToken}

FirstNames == {"Ada", "Grace"}

LastNames == {"Lovelace"}

Usernames == {"ada"}

PictureUrls == {UNDEF, "", "/uploads/ada.png"}

ABody == [NoBody EXCEPT !.sessionId = "sess_1", !.firstName = "Ada",
                        !.lastName = "Lovelace", !.username = "ada"]

\* Bodies with every field the success page sends: every profile for the
\* session of the paying user, one profile for each other token.
CompleteBodies ==
    { [NoBody EXCEPT !.sessionId = "sess_1", !.firstName = f, !.lastName = l,
                     !.username = n, !.profilePictureUrl = p] :
        f \in FirstNames, l \in LastNames, n \in Usernames, p \in PictureUrls }
    \cup { [ABody EXCEPT !.sessionId = t] : t \in TokensSent }

\* Bodies with one required field missing or empty.
IncompleteBodies ==
    UNION { { [ABody EXCEPT !.sessionId = v], [ABody EXCEPT !.firstName = v],
              [ABody EXCEPT !.lastName = v], [ABody EXCEPT !.username = v] } :
            v \in {UNDEF, ""} }

ProfileBodies == CompleteBodies \cup IncompleteBodies

EventTypes == {"checkout.session.completed", "invoice.paid"}

EventEmails == {UNDEF, "ada@example.com", "u42@example.com"}

WebhookEvents ==
    [signed : BOOLEAN, type : EventTypes, customer_email : EventEmails]

StatusBodies ==
    { [NoBody EXCEPT !.cognitoId = c, !.status = st] :
        c \in {UNDEF, "u42", "u7"}, st \in {UNDEF, ACTIVE, INACTIVE} }

-----------------------------------------------------------------------------
(* updateAfterPayment: keyed by the session's client_reference_id *)

\* Up to the await of verifyStripeSession.
UapStart(body) ==
    LET r == NewRequest("updateAfterPayment", body, NoEvent)
    IN  IF Falsy(body.sessionId) \/ Falsy(body.firstName) \/ Falsy(body.lastName)
        THEN Respond(r, 400, "false")
        ELSE [r EXCEPT !.pc = "retrieve"]

\* From the return of verifyStripeSession to the await of findUnique.
UapVerified(r, outcome) ==
    LET session == verifyStripeSession(r.body.sessionId, outcome)
        r1 == [r EXCEPT !.retrieve = outcome, !.session = session]
        r2 == IF outcome = "ok" THEN r1
              ELSE Log(r1, "Stripe session retrieval failed:")
    IN  IF SessionIsNull(outcome) \/ session.payment_status # "paid"
        THEN Respond(r2, 400, "false")
        ELSE IF Falsy(session.client_reference_id)
        THEN Respond(r2, 400, "false")
        ELSE [r2 EXCEPT !.pc = "find"]

\* findUnique runs on the table; the handler goes on to its update or create.
UapFound(r, table, db) ==
    IF db # "ok"
    THEN Catch(r, db, "Error updating user:", 500, "false")
    ELSE [r EXCEPT !.user = FindByCognitoId(table, r.session.client_reference_id),
                   !.pc = "write"]

\* data of the update of an existing user.
UapUpdateData(body) ==
    [NoData EXCEPT !.firstName = body.firstName,
                   !.lastName = body.lastName,
                   !.profilePictureUrl = body.profilePictureUrl,
                   !.subscriptionStatus = ACTIVE]

\* data of the create of a new user: username and email are made up from
\* the cognitoId.
UapCreateData(cognitoId, body) ==
    [NoData EXCEPT !.cognitoId = cognitoId,
                   !.firstName = body.firstName,
                   !.lastName = body.lastName,
                   !.profilePictureUrl = body.profilePictureUrl,
                   !.subscriptionStatus = ACTIVE,
                   !.username = "user_" \o cognitoId,
                   !.email = cognitoId \o "@example.com"]

\* The table call of the branch taken on the row found earlier.
UapDbCall(r, table) ==
    LET cognitoId == r.session.client_reference_id
    IN  IF r.user # NoUser
        THEN PrismaUpdate(table, FindByCognitoId(table, cognitoId),
                          UapUpdateData(r.body))
        ELSE PrismaCreate(table, UapCreateData(cognitoId, r.body))

\* Table and request after the update or create ran and the handler ended.
UapWrite(r, table, db) ==
    LET res == UapDbCall(r, table)
    IN  IF db # "ok"
        THEN [table |-> table,
              req |-> Catch(r, db, "Error updating user:", 500, "false")]
        ELSE IF res.err # "none"
        THEN [table |-> table,
              req |-> Catch(r, res.err, "Error updating user:", 500, "false")]
        ELSE [table |-> res.table,
              req |-> Respond([r EXCEPT !.user = res.row], 200, "true")]

-----------------------------------------------------------------------------
(* updateUserAfterPayment: keyed by the session's customer email *)

\* Up to the await of stripe.checkout.sessions.retrieve.
UuapStart(body) ==
    LET r == NewRequest("updateUserAfterPayment", body, NoEvent)
    IN  IF Falsy(body.sessionId) \/ Falsy(body.firstName)
           \/ Falsy(body.lastName) \/ Falsy(body.username)
        THEN Respond(r, 400, UNDEF)
        ELSE [r EXCEPT !.pc = "retrieve"]

\* From the return (or throw) of retrieve to the await of findUnique.  The
\* payment status of the session is not looked at.
UuapRetrieved(r, outcome) ==
    LET session == verifyStripeSession(r.body.sessionId, outcome)
        r1 == [r EXCEPT !.retrieve = outcome, !.session = session]
    IN  IF outcome # "ok"
        THEN Catch(r1, "StripeError", "Error updating user after payment:",
                   500, UNDEF)
        ELSE IF Falsy(session.customer_email)
        THEN Respond(r1, 400, UNDEF)
        ELSE [r1 EXCEPT !.pc = "find"]

UuapFound(r, table, db) ==
    IF db # "ok"
    THEN Catch(r, db, "Error updating user after payment:", 500, UNDEF)
    ELSE [r EXCEPT !.user = FindByEmail(table, r.session.customer_email),
                   !.pc = "write"]

UuapCreateData(email, body) ==
    [NoData EXCEPT !.email = email,
                   !.firstName = body.firstName,
                   !.lastName = body.lastName,
                   !.profilePictureUrl = body.profilePictureUrl,
                   !.subscriptionStatus = ACTIVE,
                   !.username = body.username]

UuapUpdateData(body) ==
    [NoData EXCEPT !.firstName = body.firstName,
                   !.lastName = body.lastName,
                   !.profilePictureUrl = body.profilePictureUrl,
                   !.subscriptionStatus = ACTIVE]

UuapDbCall(r, table) ==
    LET email == r.session.customer_email
    IN  IF r.user = NoUser
        THEN PrismaCreate(table, UuapCreateData(email, r.body))
        ELSE PrismaUpdate(table, FindByEmail(table, email),
                          UuapUpdateData(r.body))

UuapWrite(r, table, db) ==
    LET res == UuapDbCall(r, table)
    IN  IF db # "ok"
        THEN [table |-> table,
              req |-> Catch(r, db, "Error updating user after payment:",
                            500, UNDEF)]
        ELSE IF res.err # "none"
        THEN [table |-> table,
              req |-> Catch(r, res.err, "Error updating user after payment:",
                            500, UNDEF)]
        ELSE [table |-> res.table,
              req |-> Respond([r EXCEPT !.user = res.row], 200, "true")]

-----------------------------------------------------------------------------
(* handleStripeWebhook *)

\* A constructEvent that parses the body without checking the signature.
ConstructEventUnchecked(event) == FALSE

\* stripe.webhooks.constructEvent returns the event of a signed body and
\* throws on any other.
ConstructEventThrows(event) == ~event.signed

\* A webhook handler that acts on a signed event whatever its type.
WebhookStartAnyType(event) ==
    LET r == NewRequest("handleStripeWebhook", NoBody, event)
    IN  IF ConstructEventThrows(event)
        THEN Catch(r, "SignatureVerification", "Webhook error:", 400, UNDEF)
        ELSE IF ~Falsy(event.customer_email)
        THEN [r EXCEPT !.pc = "update"]
        ELSE Respond(r, 200, UNDEF)

\* Up to the await of the update, or to the response when there is none.
WebhookStart(event) ==
    LET r == NewRequest("handleStripeWebhook", NoBody, event)
    IN  IF ConstructEventThrows(event)
        THEN Catch(r, "SignatureVerification", "Webhook error:", 400, UNDEF)
        ELSE IF event.type = "checkout.session.completed"
                /\ ~Falsy(event.customer_email)
        THEN [r EXCEPT !.pc = "update"]
        ELSE Respond(r, 200, UNDEF)

\* Update data that also writes the profile picture the event does not carry.
WebhookUpdateDataWithProfile ==
    [NoData EXCEPT !.subscriptionStatus = ACTIVE, !.profilePictureUrl = NULL]

WebhookUpdateData == [NoData EXCEPT !.subscriptionStatus = ACTIVE]

\* A webhook write that is an upsert: it creates the row when none matches.
WebhookUpsert(r, table, db) ==
    LET found == FindByEmail(table, r.event.customer_email)
        res == IF found = NoUser
               THEN PrismaCreate(table, [NoData EXCEPT
                        !.email = r.event.customer_email,
                        !.subscriptionStatus = ACTIVE])
               ELSE PrismaUpdate(table, found,
                        [NoData EXCEPT !.subscriptionStatus = ACTIVE])
    IN  IF db # "ok" \/ res.err # "none"
        THEN [table |-> table,
              req |-> Catch(r, db, "Webhook error:", 400, UNDEF)]
        ELSE [table |-> res.table,
              req |-> Respond(Log([r EXCEPT !.user = res.row],
                                  "User subscription status updated to active."),
                              200, UNDEF)]

\* The update ran (or threw) and the handler ended.
WebhookUpdate(r, table, db) ==
    LET res == PrismaUpdate(table, FindByEmail(table, r.event.customer_email),
                            WebhookUpdateData)
    IN  IF db # "ok"
        THEN [table |-> table,
              req |-> Catch(r, db, "Webhook error:", 400, UNDEF)]
        ELSE IF res.err # "none"
        THEN [table |-> table,
              req |-> Catch(r, res.err, "Webhook error:", 400, UNDEF)]
        ELSE [table |-> res.table,
              req |-> Respond(Log([r EXCEPT !.user = res.row],
                                  "User subscription status updated to active."),
                              200, UNDEF)]

-----------------------------------------------------------------------------
(* updateUserStatus *)

StatusStart(body) ==
    LET r == NewRequest("updateUserStatus", body, NoEvent)
    IN  IF Falsy(body.cognitoId) \/ Falsy(body.status)
        THEN Respond(r, 400, UNDEF)
        ELSE [r EXCEPT !.pc = "update"]

StatusUpdateData(body) == [NoData EXCEPT !.subscriptionStatus = body.status]

StatusUpdate(r, table, db) ==
    LET res == PrismaUpdate(table, FindByCognitoId(table, r.body.cognitoId),
                            StatusUpdateData(r.body))
    IN  IF db # "ok"
        THEN [table |-> table,
              req |-> Catch(r, db, "Error updating user status:", 500, UNDEF)]
        ELSE IF res.err # "none"
        THEN [table |-> table,
              req |-> Catch(r, res.err, "Error updating user status:", 500, UNDEF)]
        ELSE [table |-> res.table,
              req |-> Respond([r EXCEPT !.user = res.row], 200, UNDEF)]

-----------------------------------------------------------------------------
(* The success page of the web client *)

\* window.location.search: the session_id and username parameters, null
\* when the parameter is absent.
NoSearch == [session_id |-> NULL, username |-> NULL]

Searches == [session_id : {NULL, "sess_1"}, username : {NULL} \cup Usernames]

\* What the user types into the firstName and lastName inputs.
InputNames == {"firstName", "lastName"}

InputValues == {"", "Ada"}

\* Files the user can select.
Files == {"ada.png"}

\* The initial form state.
EmptyFormData == [firstName |-> "", lastName |-> "", username |-> "",
                  profilePictureUrl |-> ""]

\* The component after its useState calls, the browser being on the page
\* named route.  effectDue: the effect is to run after this render;
\* redirect: the timer of the effect is set.
Mounted(route, search) ==
    [route |-> route, search |-> search, effectDue |-> route = "success",
     redirect |-> FALSE,
     loading |-> TRUE, formData |-> EmptyFormData, sessionId |-> NULL,
     error |-> NULL, success |-> FALSE, selectedFile |-> NULL,
     isSubmitting |-> FALSE]

\* The browser is not on the success page yet.
Elsewhere == Mounted("elsewhere", NoSearch)

\* The effect of the component, run after the first render and after a
\* render in which success has changed.
UseEffect(p) ==
    LET sessionIdFromURL == p.search.session_id
        usernameFromURL  == p.search.username
        p1 == [p EXCEPT !.effectDue = FALSE,
                        !.formData.username =
                            IF Falsy(usernameFromURL) THEN ""
                            ELSE usernameFromURL]
    IN  IF Falsy(usernameFromURL)
        THEN [p1 EXCEPT
                !.error = "Username is missing. Please try registering again.",
                !.loading = FALSE]
        ELSE LET p2 == IF ~Falsy(sessionIdFromURL)
                       THEN [p1 EXCEPT !.sessionId = sessionIdFromURL]
                       ELSE [p1 EXCEPT
                               !.error = "Invalid session. Please try registering again.",
                               !.loading = FALSE]
                 p3 == IF ~Falsy(sessionIdFromURL) /\ ~Falsy(usernameFromURL)
                       THEN [p2 EXCEPT !.loading = FALSE]
                       ELSE p2
             IN  IF p.success THEN [p3 EXCEPT !.redirect = TRUE] ELSE p3

\* The form is on the screen: the component renders it when it is neither
\* loading nor showing the success panel.
FormRendered(p) ==
    /\ p.route = "success"
    /\ ~p.effectDue
    /\ ~p.loading
    /\ ~p.success

\* The check of the form fields that leaves out the first name.
MissingFormFieldsButFirstName(formData) ==
    \/ Falsy(formData.lastName)
    \/ Falsy(formData.username)

\* The first check of handleFormSubmit.
MissingFormFields(formData) ==
    \/ Falsy(formData.firstName)
    \/ Falsy(formData.lastName)
    \/ Falsy(formData.username)

\* A response body as the page reads it; threw: the fetch or the parsing of
\* the body threw instead.
NoResponse == [threw |-> FALSE, success |-> UNDEF, error |-> UNDEF,
               filePath |-> UNDEF]

Thrown == [NoResponse EXCEPT !.threw = TRUE]

\* What the upload request can end with.
UploadResponses ==
    { [NoResponse EXCEPT !.success = "true", !.filePath = "/uploads/ada.png"],
      [NoResponse EXCEPT !.success = "false", !.error = "No file uploaded."],
      [NoResponse EXCEPT !.success = "false"],
      Thrown }

\* What the update-after-payment request can end with: the bodies the
\* server's handlers send, or a throw.
UpdateResponses ==
    { [NoResponse EXCEPT !.success = "true"],
      [NoResponse EXCEPT !.success = "false",
                         !.error = "Invalid or unpaid session ID."],
      [NoResponse EXCEPT !.error = "Not found"],
      Thrown }

\* data.success as a condition: of the values a response carries here only
\* true is truthy.
Truthy(v) == v = "true"

\* The body of the update-after-payment request.
NoPayload == [sessionId |-> NULL, firstName |-> NULL, lastName |-> NULL,
              username |-> NULL, profilePictureUrl |-> NULL]

Payload(sessionId, formData, uploadedImageUrl) ==
    [sessionId |-> sessionId,
     firstName |-> formData.firstName,
     lastName |-> formData.lastName,
     username |-> formData.username,
     profilePictureUrl |-> uploadedImageUrl]

\* The run of handleFormSubmit: where it is, the state values its closure
\* holds (those of the render the form was submitted from), the answers it
\* got and the update request it sent.
NoSubmit == [pc |-> "idle", formData |-> EmptyFormData, sessionId |-> NULL,
             selectedFile |-> NULL, success |-> FALSE,
             upload |-> NoResponse, payload |-> NoPayload,
             result |-> NoResponse]

\* The update request is sent: the run goes on to await its answer.
SendUpdate(run, uploadedImageUrl) ==
    [run EXCEPT !.pc = "update",
                !.payload = Payload(run.sessionId, run.formData,
                                    uploadedImageUrl)]

\* A finally block that does nothing.
FinallySkipped(p) == p

\* The finally block of handleFormSubmit.
Finally(p) == [p EXCEPT !.isSubmitting = FALSE, !.loading = FALSE]

\* setSuccess(v): a change of success makes the effect run again.
SetSuccess(p, v) ==
    [p EXCEPT !.success = v, !.effectDue = @ \/ (p.success # v)]

\* The statement after the try block: success is the closure's value.
AfterTry(p, run) == IF run.success THEN SetSuccess(p, TRUE) ELSE p

\* The catch block followed by the rest of the handler.
SubmitCatch(p, run) ==
    AfterTry(Finally([p EXCEPT
        !.error = "An error occurred while updating your information."]), run)

\* handleFormSubmit up to its first await or its return.
SubmitStart(p) ==
    LET p0 == SetSuccess([p EXCEPT !.error = NULL], FALSE)
        run == [NoSubmit EXCEPT !.pc = "returned",
                                !.formData = p.formData,
                                !.sessionId = p.sessionId,
                                !.selectedFile = p.selectedFile,
                                !.success = p.success]
    IN  IF MissingFormFields(p.formData)
        THEN [page |-> [p0 EXCEPT !.error =
                          "First name, last name, and username are required."],
              submit |-> run]
        ELSE IF Falsy(p.sessionId)
        THEN [page |-> [p0 EXCEPT !.error = "Session ID is missing."],
              submit |-> run]
        ELSE LET p1 == [p0 EXCEPT !.isSubmitting = TRUE]
             IN  IF p.selectedFile # NULL
                 THEN [page |-> p1, submit |-> [run EXCEPT !.pc = "upload"]]
                 ELSE [page |-> p1,
                       submit |-> SendUpdate(run, p.formData.profilePictureUrl)]

\* handleFormSubmit from the answer of the upload to its next await or its
\* return.
SubmitUploaded(p, r, uploadData) ==
    LET run == [r EXCEPT !.upload = uploadData, !.pc = "returned"]
    IN  IF uploadData.threw
        THEN [page |-> SubmitCatch(p, run), submit |-> run]
        ELSE IF Truthy(uploadData.success)
        THEN [page |-> p, submit |-> SendUpdate(run, uploadData.filePath)]
        ELSE [page |-> Finally([p EXCEPT
                          !.error = IF Falsy(uploadData.error)
                                    THEN "Failed to upload image."
                                    ELSE uploadData.error,
                          !.isSubmitting = FALSE]),
              submit |-> run]

\* handleFormSubmit from the answer of the update request to its end.
SubmitUpdated(p, r, result) ==
    LET run == [r EXCEPT !.result = result, !.pc = "returned"]
    IN  IF result.threw
        THEN [page |-> SubmitCatch(p, run), submit |-> run]
        ELSE IF Truthy(result.success)
        THEN [page |-> AfterTry(Finally(SetSuccess(p, TRUE)), run),
              submit |-> run]
        ELSE [page |-> AfterTry(Finally([p EXCEPT
                          !.error = IF Falsy(result.error)
                                    THEN "Failed to update user information."
                                    ELSE result.error]), run),
              submit |-> run]

-----------------------------------------------------------------------------
(* The state machine *)

Init ==
    /\ users = {}
    /\ req = [s \in Slots |-> Idle]
    /\ arrived = 0
    /\ page = Elsewhere
    /\ submit = NoSubmit

\* A request arrives and its handler runs to its first await.
UpdateAfterPaymentStart(s) ==
    /\ Receive(s)
    /\ \E body \in ProfileBodies : req' = [req EXCEPT ![s] = UapStart(body)]
    /\ UNCHANGED users
    /\ UNCHANGED <<page, submit>>

\* The payment provider answers verifyStripeSession.
UpdateAfterPaymentVerify(s) ==
    /\ req[s].handler = "updateAfterPayment" /\ req[s].pc = "retrieve"
    /\ \E outcome \in RetrieveOutcomes(req[s].body.sessionId) :
           req' = [req EXCEPT ![s] = UapVerified(req[s], outcome)]
    /\ UNCHANGED users
    /\ UNCHANGED arrived
    /\ UNCHANGED <<page, submit>>

\* The table answers findUnique.
UpdateAfterPaymentFind(s) ==
    /\ req[s].handler = "updateAfterPayment" /\ req[s].pc = "find"
    /\ \E db \in DbOutcomes :
           req' = [req EXCEPT ![s] = UapFound(req[s], users, db)]
    /\ UNCHANGED users
    /\ UNCHANGED arrived
    /\ UNCHANGED <<page, submit>>

\* The table runs the update or create; the handler responds.
UpdateAfterPaymentWrite(s) ==
    /\ req[s].handler = "updateAfterPayment" /\ req[s].pc = "write"
    /\ \E db \in DbOutcomes :
           LET res == UapWrite(req[s], users, db)
           IN  /\ users' = res.table
               /\ req' = [req EXCEPT ![s] = res.req]
    /\ UNCHANGED arrived
    /\ UNCHANGED <<page, submit>>

UpdateUserAfterPaymentStart(s) ==
    /\ Receive(s)
    /\ \E body \in ProfileBodies : req' = [req EXCEPT ![s] = UuapStart(body)]
    /\ UNCHANGED users
    /\ UNCHANGED <<page, submit>>

UpdateUserAfterPaymentRetrieve(s) ==
    /\ req[s].handler = "updateUserAfterPayment" /\ req[s].pc = "retrieve"
    /\ \E outcome \in RetrieveOutcomes(req[s].body.sessionId) :
           req' = [req EXCEPT ![s] = UuapRetrieved(req[s], outcome)]
    /\ UNCHANGED users
    /\ UNCHANGED arrived
    /\ UNCHANGED <<page, submit>>

UpdateUserAfterPaymentFind(s) ==
    /\ req[s].handler = "updateUserAfterPayment" /\ req[s].pc = "find"
    /\ \E db \in DbOutcomes :
           req' = [req EXCEPT ![s] = UuapFound(req[s], users, db)]
    /\ UNCHANGED users
    /\ UNCHANGED arrived
    /\ UNCHANGED <<page, submit>>

UpdateUserAfterPaymentWrite(s) ==
    /\ req[s].handler = "updateUserAfterPayment" /\ req[s].pc = "write"
    /\ \E db \in DbOutcomes :
           LET res == UuapWrite(req[s], users, db)
           IN  /\ users' = res.table
               /\ req' = [req EXCEPT ![s] = res.req]
    /\ UNCHANGED arrived
    /\ UNCHANGED <<page, submit>>

HandleStripeWebhookStart(s) ==
    /\ Receive(s)
    /\ \E event \in WebhookEvents :
           req' = [req EXCEPT ![s] = WebhookStart(event)]
    /\ UNCHANGED users
    /\ UNCHANGED <<page, submit>>

HandleStripeWebhookUpdate(s) ==
    /\ req[s].handler = "handleStripeWebhook" /\ req[s].pc = "update"
    /\ \E db \in DbOutcomes :
           LET res == WebhookUpdate(req[s], users, db)
           IN  /\ users' = res.table
               /\ req' = [req EXCEPT ![s] = res.req]
    /\ UNCHANGED arrived
    /\ UNCHANGED <<page, submit>>

UpdateUserStatusStart(s) ==
    /\ Receive(s)
    /\ \E body \in StatusBodies : req' = [req EXCEPT ![s] = StatusStart(body)]
    /\ UNCHANGED users
    /\ UNCHANGED <<page, submit>>

UpdateUserStatusUpdate(s) ==
    /\ req[s].handler = "updateUserStatus" /\ req[s].pc = "update"
    /\ \E db \in DbOutcomes :
           LET res == StatusUpdate(req[s], users, db)
           IN  /\ users' = res.table
               /\ req' = [req EXCEPT ![s] = res.req]
    /\ UNCHANGED arrived
    /\ UNCHANGED <<page, submit>>

\* One step of the request in slot s.
Handle(s) ==
    \/ UpdateAfterPaymentStart(s)
    \/ UpdateAfterPaymentVerify(s)
    \/ UpdateAfterPaymentFind(s)
    \/ UpdateAfterPaymentWrite(s)
    \/ UpdateUserAfterPaymentStart(s)
    \/ UpdateUserAfterPaymentRetrieve(s)
    \/ UpdateUserAfterPaymentFind(s)
    \/ UpdateUserAfterPaymentWrite(s)
    \/ HandleStripeWebhookStart(s)
    \/ HandleStripeWebhookUpdate(s)
    \/ UpdateUserStatusStart(s)
    \/ UpdateUserStatusUpdate(s)

Next == \E s \in Slots : Handle(s)

Spec == Init /\ [][Next]_vars

\* The same server when every request ends before the next one arrives: all
\* requests go through the first slot.
NextSequential == Handle(1)

SpecSequential == Init /\ [][NextSequential]_vars

-----------------------------------------------------------------------------
(* The success page: one browser tab, the server seen through its answers *)

\* The browser arrives on the success page: the component is constructed.
OpenSuccessPage ==
    /\ page.route = "elsewhere"
    /\ \E search \in Searches : page' = Mounted("success", search)
    /\ UNCHANGED <<submit, users, req, arrived>>

\* The effect runs after a render that asked for it.
RunEffect ==
    /\ page.route = "success"
    /\ page.effectDue
    /\ page' = UseEffect(page)
    /\ UNCHANGED <<submit, users, req, arrived>>

\* The user types into an input of the form.
HandleInputChange ==
    /\ FormRendered(page)
    /\ \E name \in InputNames, value \in InputValues :
           page' = [page EXCEPT !.formData[name] = value]
    /\ UNCHANGED <<submit, users, req, arrived>>

\* The user selects a file.  (The file input is the handler's only caller;
\* the form as it stands has that input commented out.)
HandleFileChange ==
    /\ FormRendered(page)
    /\ \E file \in Files : page' = [page EXCEPT !.selectedFile = file]
    /\ UNCHANGED <<submit, users, req, arrived>>

\* The user submits the form: the submit button is disabled while
\* isSubmitting, so one run is in flight at a time.
HandleFormSubmit ==
    /\ FormRendered(page)
    /\ ~page.isSubmitting
    /\ submit.pc \in {"idle", "returned"}
    /\ LET res == SubmitStart(page)
       IN  /\ page' = res.page
           /\ submit' = res.submit
    /\ UNCHANGED <<users, req, arrived>>

\* The upload request ends.
UploadResponds ==
    /\ submit.pc = "upload"
    /\ \E uploadData \in UploadResponses :
           LET res == SubmitUploaded(page, submit, uploadData)
           IN  /\ page' = res.page
               /\ submit' = res.submit
    /\ UNCHANGED <<users, req, arrived>>

\* The update-after-payment request ends.
UpdateResponds ==
    /\ submit.pc = "update"
    /\ \E result \in UpdateResponses :
           LET res == SubmitUpdated(page, submit, result)
           IN  /\ page' = res.page
               /\ submit' = res.submit
    /\ UNCHANGED <<users, req, arrived>>

\* The timer of the effect fires: router.push('/').
Redirect ==
    /\ page.route = "success"
    /\ page.redirect
    /\ page' = [page EXCEPT !.route = "home", !.redirect = FALSE]
    /\ UNCHANGED <<submit, users, req, arrived>>

NextPage ==
    \/ OpenSuccessPage
    \/ RunEffect
    \/ HandleInputChange
    \/ HandleFileChange
    \/ HandleFormSubmit
    \/ UploadResponds
    \/ UpdateResponds
    \/ Redirect

SpecPage == Init /\ [][NextPage]_vars

\* The page when every request it awaits ends, with an answer or a throw.
SpecPageLive ==
    /\ SpecPage
    /\ WF_vars(UploadResponds)
    /\ WF_vars(UpdateResponds)

-----------------------------------------------------------------------------
(* Handlers run alone: every segment in turn, provider and table answering *)

\* Result of a handler run: the table afterwards and the finished request.
Ran(table, r) == [table |-> table, req |-> r]

UapRun(table, body) ==
    LET r0 == UapStart(body)
        r1 == UapVerified(r0, "ok")
        r2 == UapFound(r1, table, "ok")
    IN  IF r0.pc = "done" THEN Ran(table, r0)
        ELSE IF r1.pc = "done" THEN Ran(table, r1)
        ELSE UapWrite(r2, table, "ok")

UuapRun(table, body) ==
    LET r0 == UuapStart(body)
        r1 == UuapRetrieved(r0, "ok")
        r2 == UuapFound(r1, table, "ok")
    IN  IF r0.pc = "done" THEN Ran(table, r0)
        ELSE IF r1.pc = "done" THEN Ran(table, r1)
        ELSE UuapWrite(r2, table, "ok")

WebhookRun(table, event) ==
    LET r0 == WebhookStart(event)
    IN  IF r0.pc = "done" THEN Ran(table, r0)
        ELSE WebhookUpdate(r0, table, "ok")

\* Bodies whose token names a session the provider holds, or no token at all.
RetrievableBodies ==
    { b \in ProfileBodies : b.sessionId \in SessionTokens \cup {UNDEF, ""} }

-----------------------------------------------------------------------------
(* Claims *)

Handlers == {"updateAfterPayment", "updateUserAfterPayment",
             "handleStripeWebhook", "updateUserStatus"}

SyncHandlers == {"updateAfterPayment", "updateUserAfterPayment"}

\* The rows of the person behind a checkout session: those keyed by the
\* session's reference id or by its customer email.
RowsOf(table, session) ==
    { u \in table :
        \/ (~Falsy(session.client_reference_id)
              /\ u.cognitoId = session.client_reference_id)
        \/ (~Falsy(session.customer_email)
              /\ u.email = session.customer_email) }

\* C1 (monotonic activation): in every step of the handlers, a row whose
\* subscription status is 'active' is still there with status 'active'
\* afterwards.  (A row is identified by its email, which no handler rewrites.)
C1_MonotonicActivation ==
    [][ \A u \in users :
            u.subscriptionStatus = ACTIVE =>
                \E v \in users' :
                    v.email = u.email /\ v.subscriptionStatus = ACTIVE ]_vars

\* C2 (fail-closed webhook): every step in which a webhook delivery with a
\* bad signature is handled leaves the user table as it was and ends the
\* handler with status 400; such a delivery never gets to the table update.
C2_FailClosedWebhook ==
    [][ \A s \in Slots :
            ( /\ req'[s] # req[s]
              /\ req'[s].handler = "handleStripeWebhook"
              /\ ~req'[s].event.signed )
            => ( /\ users' = users
                 /\ req'[s].pc = "done"
                 /\ req'[s].status = 400 ) ]_vars

\* C2 witness: a rejected, unsigned checkout-completed delivery whose
\* customer email is that of an inactive row, which it would have activated.
C2_Witness ==
    \E s \in Slots :
        /\ req[s].handler = "handleStripeWebhook"
        /\ ~req[s].event.signed
        /\ req[s].event.type = "checkout.session.completed"
        /\ req[s].status = 400
        /\ \E u \in users : /\ u.email = req[s].event.customer_email
                            /\ u.subscriptionStatus = INACTIVE

\* C3 (concurrent reconciliation): the create-or-update is one atomic
\* conditional write, so a handler about to write still acts on what is in
\* the table (the row it looked up exists if and only if it found one), and
\* no session's identity key has two rows.
C3_AtomicCreateOrUpdate ==
    /\ \A s \in Slots :
           (req[s].handler = "updateAfterPayment" /\ req[s].pc = "write") =>
               ( (req[s].user = NoUser)
                 <=> (FindByCognitoId(users, req[s].session.client_reference_id)
                          = NoUser) )
    /\ \A s \in Slots :
           (req[s].handler = "updateUserAfterPayment" /\ req[s].pc = "write") =>
               ( (req[s].user = NoUser)
                 <=> (FindByEmail(users, req[s].session.customer_email)
                          = NoUser) )
    /\ \A u, v \in users :
           (u.cognitoId # NULL /\ u.cognitoId = v.cognitoId) \/ u.email = v.email
               => u = v

\* C4 (no duplicate identities): the person behind a checkout session has at
\* most one row, whichever of the two keys each reconciliation used.
C4_NoDuplicateIdentities ==
    \A t \in SessionTokens : Cardinality(RowsOf(users, StripeSessions[t])) <= 1

C6_SignedWebhookReceived ==
    \A s \in Slots :
        (req[s].handler = "handleStripeWebhook" /\ req[s].pc = "done") =>
            /\ req[s].event.signed => req[s].status = 200
            /\ req[s].status = 400 => ~req[s].event.signed

\* C7 (unpaid session): a profile handler that has retrieved a session whose
\* payment status is not 'paid' has responded 400 without going on to the
\* table.
C7_UnpaidSessionRejected ==
    \A s \in Slots :
        ( /\ req[s].handler \in SyncHandlers
          /\ req[s].retrieve = "ok"
          /\ req[s].session.payment_status # "paid" )
        => (req[s].pc = "done" /\ req[s].status = 400 /\ req[s].user = NoUser)

\* C8 (provider failure vs invalid session): a profile handler whose retrieve
\* call failed responds 5xx; one whose session does not exist or is unpaid
\* responds 4xx.
C8_ProviderFailureDistinguished ==
    \A s \in Slots :
        (req[s].handler \in SyncHandlers /\ req[s].pc = "done") =>
            /\ req[s].retrieve = "unavailable" => req[s].status >= 500
            /\ ( \/ req[s].retrieve = "missing"
                 \/ ( /\ req[s].retrieve = "ok"
                      /\ req[s].session.payment_status # "paid" ) )
               => (req[s].status >= 400 /\ req[s].status < 500)

\* C9 (identity resolution): a profile handler that retrieved a paid session
\* and met no table error ends 400 exactly when the session has neither a
\* reference id nor a customer email; otherwise the row it wrote is keyed by
\* the reference id when there is one and by the customer email when not.
C9_IdentityResolution ==
    \A s \in Slots :
        ( /\ req[s].handler \in SyncHandlers
          /\ req[s].pc = "done"
          /\ req[s].retrieve = "ok"
          /\ req[s].session.payment_status = "paid"
          /\ req[s].err = "none" )
        => LET ref   == req[s].session.client_reference_id
               email == req[s].session.customer_email
           IN  IF Falsy(ref) /\ Falsy(email)
               THEN req[s].status = 400 /\ req[s].user = NoUser
               ELSE /\ req[s].status = 200
                    /\ IF ~Falsy(ref) THEN req[s].user.cognitoId = ref
                                      ELSE req[s].user.email = email

\* The fields of a row that come from the profile form.
ProfileFields == {"firstName", "lastName", "username", "profilePictureUrl"}

\* C10 (non-destructive update): when a profile handler updates a row it
\* found, every profile field the body omits or gives as empty keeps the
\* non-empty value the row had.
C10_NonDestructiveUpdate ==
    [][ \A s \in Slots :
            ( /\ req[s].handler \in SyncHandlers
              /\ req[s].pc = "write"
              /\ req[s].user # NoUser
              /\ req'[s].status = 200 )
            => \A old \in users :
                   old.email = req'[s].user.email =>
                       \A f \in ProfileFields :
                           (Falsy(req[s].body[f]) /\ ~Falsy(old[f]))
                               => req'[s].user[f] = old[f] ]_vars

\* The step of this transition is a step of the webhook request in slot s.
WebhookStep(s) ==
    /\ req'[s] # req[s]
    /\ req'[s].handler = "handleStripeWebhook"

\* C11 (unrecognised events): every step that handles a signed webhook event
\* whose type is not 'checkout.session.completed' ends the handler with
\* status 200 and leaves the user table as it was.
C11_UnrecognisedEventAccepted ==
    [][ \A s \in Slots :
            ( /\ WebhookStep(s)
              /\ req'[s].event.signed
              /\ req'[s].event.type # "checkout.session.completed" )
            => ( /\ users' = users
                 /\ req'[s].pc = "done"
                 /\ req'[s].status = 200 ) ]_vars

\* C11 witness: a signed event of another type was answered 200 although its
\* customer email is that of an inactive row.
C11_Witness ==
    \E s \in Slots :
        /\ req[s].handler = "handleStripeWebhook"
        /\ req[s].event.signed
        /\ req[s].event.type = "invoice.paid"
        /\ req[s].status = 200
        /\ \E u \in users : /\ u.email = req[s].event.customer_email
                            /\ u.subscriptionStatus = INACTIVE

\* C12 (accept and drop): a finished, signed 'checkout.session.completed'
\* delivery without a customer email has status 200, wrote nothing and left
\* exactly one diagnostic log entry.
C12_AcceptAndDropLogged ==
    \A s \in Slots :
        ( /\ req[s].handler = "handleStripeWebhook"
          /\ req[s].pc = "done"
          /\ req[s].event.signed
          /\ req[s].event.type = "checkout.session.completed"
          /\ Falsy(req[s].event.customer_email) )
        => ( /\ req[s].status = 200
             /\ req[s].user = NoUser
             /\ Len(req[s].logs) = 1 )

\* C13 (status-only webhook update): when the update of a signed
\* 'checkout.session.completed' event runs on a table that has a row with the
\* event's customer email, and the table call itself does not fail, the
\* handler responds 200 and the table afterwards is the table before with
\* that row's subscription status 'active' and nothing else changed.
C13_StatusOnlyWebhookUpdate ==
    [][ \A s \in Slots :
            ( /\ WebhookStep(s)
              /\ req[s].pc = "update"
              /\ req'[s].err # "DbUnavailable" )
            => \A old \in users :
                   old.email = req[s].event.customer_email =>
                       /\ req'[s].status = 200
                       /\ req'[s].user =
                              [old EXCEPT !.subscriptionStatus = ACTIVE]
                       /\ users' = (users \ {old}) \cup {req'[s].user} ]_vars

\* C13 witness: a webhook update has ended with 200 on a table of two rows;
\* the matched row is active and the other row is still there.
C13_Witness ==
    \E s \in Slots :
        /\ req[s].handler = "handleStripeWebhook"
        /\ req[s].status = 200
        /\ req[s].user \in users
        /\ req[s].user.subscriptionStatus = ACTIVE
        /\ req[s].user.email = req[s].event.customer_email
        /\ ~Falsy(req[s].user.firstName)
        /\ Cardinality(users) = 2

\* The step of this transition is the write of the profile request in slot
\* s, and the table call itself did not fail.
ProfileWriteStep(s) ==
    /\ req[s].handler \in SyncHandlers
    /\ req[s].pc = "write"
    /\ req'[s].pc = "done"
    /\ req'[s].err # "DbUnavailable"

\* The rows the step of this transition adds to the table.
Created == { v \in users' : \A u \in users : u.email # v.email }

\* C14 (creation on the synchronous path): when updateAfterPayment, for a
\* paid session with reference id r and a body with firstName, lastName and
\* username, writes to a table with no row keyed r, it adds exactly one row,
\* keyed r, with the body's firstName, lastName and username and status
\* 'active', and responds 200 with success true and that row.
C14_CreationOnSyncPath ==
    [][ \A s \in Slots :
            ( /\ ProfileWriteStep(s)
              /\ req[s].handler = "updateAfterPayment"
              /\ ~Falsy(req[s].body.username)
              /\ FindByCognitoId(users, req[s].session.client_reference_id)
                     = NoUser )
            => ( /\ req'[s].status = 200
                 /\ req'[s].success = "true"
                 /\ users' = users \cup {req'[s].user}
                 /\ req'[s].user \notin users
                 /\ req'[s].user.cognitoId = req[s].session.client_reference_id
                 /\ req'[s].user.firstName = req[s].body.firstName
                 /\ req'[s].user.lastName = req[s].body.lastName
                 /\ req'[s].user.username = req[s].body.username
                 /\ req'[s].user.subscriptionStatus = ACTIVE ) ]_vars

\* The username and email updateAfterPayment makes up from a cognitoId.
SynthesizedUsername(v) == v.cognitoId # NULL /\ v.username = "user_" \o v.cognitoId

SynthesizedEmail(v) == v.cognitoId # NULL /\ v.email = v.cognitoId \o "@example.com"

\* C15 (synthesis only when needed): a row created by a profile request
\* whose body supplies a username holds that username, not a made-up one.
C15_SynthesisOnlyWhenNeeded ==
    [][ \A s \in Slots :
            ( /\ ProfileWriteStep(s)
              /\ req'[s].user \in Created
              /\ ~Falsy(req[s].body.username) )
            => ( /\ req'[s].user.username = req[s].body.username
                 /\ ~SynthesizedUsername(req'[s].user) ) ]_vars

\* Errors thrown by a call on the user table.
StoreErrors == {"DbUnavailable", "RecordNotFound", "UniqueConstraint"}

\* C16 (store failures): a profile or webhook request that ended on a failed
\* table call has a 5xx status.
C16_StoreFailureIs5xx ==
    \A s \in Slots :
        ( /\ req[s].handler \in SyncHandlers \cup {"handleStripeWebhook"}
          /\ req[s].pc = "done"
          /\ req[s].err \in StoreErrors )
        => req[s].status >= 500

\* The required fields of the profile form.
RequiredFields == {"sessionId", "firstName", "lastName", "username"}

\* C17 (missing request fields): a profile request whose body lacks one of
\* sessionId, firstName, lastName and username (or has it empty) has ended
\* with 400, without a call to the payment provider or to the table.
C17_MissingFieldsRejected ==
    \A s \in Slots :
        ( /\ req[s].handler \in SyncHandlers
          /\ \E f \in RequiredFields : Falsy(req[s].body[f]) )
        => ( /\ req[s].pc = "done"
             /\ req[s].status = 400
             /\ req[s].retrieve = "none"
             /\ req[s].user = NoUser )

\* C18 (degraded creation is flagged): a step that creates a row with a
\* made-up username or email adds an entry to the log of its request.
C18_DegradedCreationFlagged ==
    [][ \A s \in Slots :
            ( /\ ProfileWriteStep(s)
              /\ req'[s].user \in Created
              /\ ( \/ SynthesizedUsername(req'[s].user)
                   \/ SynthesizedEmail(req'[s].user) ) )
            => Len(req'[s].logs) > Len(req[s].logs) ]_vars

\* The identity keys of a table.
Keys(table) == { <<u.cognitoId, u.email>> : u \in table }

\* C19 (records are never deleted): in every step the identity keys of the
\* table before are keys of the table after.
C19_RecordsNeverDeleted ==
    [][ Keys(users) \subseteq Keys(users') ]_vars

\* C19 witness: a table of two rows on which an update by key has ended
\* with success.
C19_Witness ==
    /\ Cardinality(Keys(users)) = 2
    /\ \E s \in Slots :
           /\ req[s].handler \in {"updateUserStatus", "handleStripeWebhook"}
           /\ req[s].status = 200
           /\ req[s].user \in users

\* A row without its subscription status.
WithoutStatus(u) == [u EXCEPT !.subscriptionStatus = NULL]

\* C20 (the webhook creates no row): every step of a webhook request leaves
\* the table with the rows it had, apart from the subscription status of the
\* row with the event's customer email; with no such row the table is as it
\* was.
C20_WebhookCreatesNoRow ==
    [][ \A s \in Slots :
            WebhookStep(s) =>
                /\ { WithoutStatus(u) : u \in users' }
                       = { WithoutStatus(u) : u \in users }
                /\ \A u \in users :
                       u.email # req'[s].event.customer_email => u \in users'
                /\ FindByEmail(users, req'[s].event.customer_email) = NoUser
                       => users' = users ]_vars

\* C20 witness: a signed 'checkout.session.completed' event whose customer
\* email no row has was handled on a table that is not empty, and the table
\* has no row with that email afterwards.
C20_Witness ==
    \E s \in Slots :
        /\ req[s].handler = "handleStripeWebhook"
        /\ req[s].pc = "done"
        /\ req[s].event.signed
        /\ req[s].event.type = "checkout.session.completed"
        /\ ~Falsy(req[s].event.customer_email)
        /\ req[s].err = "RecordNotFound"
        /\ users # {}
        /\ FindByEmail(users, req[s].event.customer_email) = NoUser

\* handleFormSubmit has sent the update request in its current run.
UpdateSent == submit.payload # NoPayload

\* The upload of the current run was answered with success.
UploadSucceeded == ~submit.upload.threw /\ submit.upload.success = "true"

\* One of the conditions of sending failed in the current run: a form field
\* or the session id was empty, or the upload of the selected file ended
\* without success.
SendConditionFailed ==
    \/ \E f \in {"firstName", "lastName", "username"} :
           Falsy(submit.formData[f])
    \/ Falsy(submit.sessionId)
    \/ /\ submit.selectedFile # NULL
       /\ submit.upload # NoResponse
       /\ ~UploadSucceeded

\* C21 (the page sends only a complete request): when handleFormSubmit has
\* sent the update request, firstName, lastName, username and sessionId of
\* the request are non-empty and, if a file was selected, the upload has
\* answered with success; when one of these failed in a run, the run has
\* sent no update request and an error message is set.
C21_UpdateSentOnlyWhenComplete ==
    /\ UpdateSent =>
           /\ ~Falsy(submit.payload.firstName)
           /\ ~Falsy(submit.payload.lastName)
           /\ ~Falsy(submit.payload.username)
           /\ ~Falsy(submit.payload.sessionId)
           /\ submit.selectedFile # NULL =>
                  /\ UploadSucceeded
                  /\ submit.payload.profilePictureUrl = submit.upload.filePath
    /\ (submit.pc # "idle" /\ SendConditionFailed) =>
           /\ ~UpdateSent
           /\ submit.pc = "returned"
           /\ ~Falsy(page.error)

\* C21 witness: the update request is in flight for a selected file whose
\* upload answered with success.
C21_Witness ==
    /\ submit.pc = "update"
    /\ UpdateSent
    /\ submit.selectedFile # NULL
    /\ UploadSucceeded
    /\ page.isSubmitting

\* C22 (isSubmitting is reset, success needs the server's word): a run of
\* handleFormSubmit that has ended has isSubmitting false, isSubmitting true
\* leads to isSubmitting false, and success is true only when the update
\* request of the run was answered with success true.
C22_SubmittingEndsSuccessFromServer ==
    /\ [](submit.pc = "returned" => ~page.isSubmitting)
    /\ (page.isSubmitting ~> ~page.isSubmitting)
    /\ [](page.success =>
              /\ ~submit.result.threw
              /\ submit.result.success = "true")

\* C22 witness: a run that set isSubmitting has ended on the server's
\* success: success is true and isSubmitting false.
C22_Witness ==
    /\ submit.pc = "returned"
    /\ UpdateSent
    /\ page.success
    /\ ~page.isSubmitting

=============================================================================
